---- MODULE Spec2Model ----
(***************************************************************************)
(* Model of src/labProject.py (class ImageProcessingApp): the image        *)
(* edit / history / drawing / live-capture pipeline.                       *)
(*                                                                         *)
(* Python names are references to numpy arrays, so the model keeps a heap  *)
(* of image objects: original_image, processed_image and the entries of    *)
(* image_history are object ids, and heap maps an id to the pixel content  *)
(* of that object.  `.copy()` allocates a new object, cv2.line writes into *)
(* the object processed_image refers to.  Object ids are not observable,   *)
(* so every step renumbers the live objects in a fixed order.              *)
(*                                                                         *)
(* The cv2 transforms are external library functions: the content of an    *)
(* image is the decoded source plus the list of transforms applied to it.  *)
(* A handler is an operator from the state it finds to the state it        *)
(* leaves.  In Spec the state a step leaves keeps of the pixels only which *)
(* images are equal (Canon); SpecRoundTrip keeps the pixels themselves.    *)
(*                                                                         *)
(* phase, recorded and yielded belong to SpecRoundTrip: the part of the    *)
(* record / undo / redo round trip reached, the images recorded so far     *)
(* and the images the undos and redos have produced.  mapped belongs to    *)
(* SpecMapping: a viewport size, an image size, two pointer positions and  *)
(* the segment mouse_move_event computes for them.                         *)
(*                                                                         *)
(* cap is the state of the capture handle self.cap refers to; handles are  *)
(* the handles self.cap referred to before, in the order they were         *)
(* replaced.  The code never releases a replaced handle: it stays open     *)
(* until the Python runtime finalizes the unreferenced object.  Spec does  *)
(* not follow the replaced handles; SpecCamera does.                       *)
(*                                                                         *)
(* blur_slider is the value of the blur slider.  Spec takes the value the  *)
(* Gaussian Blur branch reads as an input of the filter and leaves the     *)
(* slider where it is; SpecKernel moves it.                                *)
(*                                                                         *)
(* hue belongs to SpecHue: one 8-bit hue value of the HSV image and what   *)
(* repeated runs of the Hue Adjustment branch make of it.                  *)
(*                                                                         *)
(* stroke belongs to SpecStroke: the segments cv2.line has drawn since the *)
(* last pointer-down, and whether a pointer-up has ended that stroke.      *)
(***************************************************************************)
EXTENDS Integers, Sequences, FiniteSets, TLC

VARIABLES original_image, processed_image, image_history,
          current_history_index, heap, pixmap,
          is_live_preview, cap, timer,
          is_drawing, last_point,
          mouse_down,
          phase, recorded, yielded,
          mapped,
          handles,
          blur_slider,
          hue,
          stroke

vars == <<original_image, processed_image, image_history,
          current_history_index, heap, pixmap, is_live_preview, cap, timer,
          is_drawing, last_point, mouse_down, phase, recorded, yielded,
          mapped, handles, blur_slider, hue, stroke>>

-----------------------------------------------------------------------------
(* Bounds of the model *)

\* image_history is unbounded in the code; recording stops at this length
MaxHist == 2

\* the capture handles replaced so far that SpecCamera follows
MaxHandles == 3

\* the blurs SpecKernel applies one after the other
MaxBlurs == 2

\* the hue shifts SpecHue applies one after the other
MaxShifts == 6

\* the strokes SpecStroke draws one after the other
MaxStrokes == 2

\* the record / undo / redo round trip is run for up to this many records,
\* with up to this many segments drawn in one stroke
MaxN == 3
MaxSeg == 2

-----------------------------------------------------------------------------
(* Values *)

None == 0
NObj == (IF MaxHist >= MaxN THEN MaxHist ELSE MaxN) + 4
Ids == 1..NObj
Free == [src |-> "free", n |-> 0, ch |-> 0, ops |-> <<>>]

GoodFiles == {"A"}
BadFiles == {"bad"}
\* "" is the cancelled dialog / the empty url list
Files == GoodFiles \cup BadFiles \cup {""}
Frames == {"cam"}

FilterNames == {"Grayscale", "Gaussian Blur", "Edge Detection", "Sharpen",
                "Brightness/Contrast", "Hue Adjustment"}
\* the filters requested through ApplyFilter
Filters == {"Grayscale", "Hue Adjustment"}
BlurValues == {4, 5}
\* blur_slider.setRange(BlurMin, BlurMax), setValue(BlurDefault)
BlurMin == 1
BlurMax == 15
BlurDefault == 5
BrightValues == {0, 50}

\* the label rectangle (viewport) and the pointer positions tried
ViewW == 4
ViewH == 2
Points == {<<1, 1>>, <<5, 1>>}

\* pixel size (shape[1], shape[0]) of the decoded files and camera frames
ImgW == 8
ImgH == 2

Min(a, b) == IF a <= b THEN a ELSE b
Range(s) == {s[k] : k \in 1..Len(s)}


-----------------------------------------------------------------------------
(* The application object as one record, so that a handler is an operator  *)
(* from the state it finds to the state it leaves.  msg is the message box *)
(* the handler shows ("none" when it shows none); mouse_down is the        *)
(* pointer button as Qt sees it.                                           *)

Cur == [original_image |-> original_image,
        processed_image |-> processed_image,
        image_history |-> image_history,
        current_history_index |-> current_history_index,
        heap |-> heap,
        pixmap |-> pixmap,
        is_live_preview |-> is_live_preview,
        cap |-> cap,
        timer |-> timer,
        is_drawing |-> is_drawing,
        last_point |-> last_point,
        mouse_down |-> mouse_down,
        handles |-> handles,
        msg |-> "none"]

Refs(s) == <<s.original_image, s.processed_image>> \o s.image_history
Live(s) == Range(Refs(s)) \ {None}

\* the object a constructor / .copy() / cv2 call returns: an id not in use
NewId(s) == CHOOSE n \in Ids : n \notin Live(s)

\* pixel content of the object r refers to
Img(s, r) == s.heap[r]

\* the pixels a reference holds; Free for None
ImgOrNone(s, r) == IF r = None THEN Free ELSE Img(s, r)

\* numpy .copy(): a new object with the same pixels, bound to field f
CopyInto(s, f, r) ==
    LET n == NewId(s)
    IN [s EXCEPT !.heap[n] = Img(s, r), ![f] = n]

\* a new object holding pixels c (the return value of a cv2 call), bound to f
NewInto(s, f, c) ==
    LET n == NewId(s)
    IN [s EXCEPT !.heap[n] = c, ![f] = n]

\* Python list slice lst[:n] for n >= 0
Slice(lst, n) == SubSeq(lst, 1, Min(n, Len(lst)))

\* update_image_display sets the label's pixmap when there is an image
update_image_display(s) ==
    IF s.processed_image # None THEN [s EXCEPT !.pixmap = TRUE] ELSE s

-----------------------------------------------------------------------------
(* Edit history: add_to_history / undo / redo *)

\* add_to_history without the slice: the redo tail is kept
add_to_history_no_truncate(s) ==
    IF s.processed_image # None
    THEN LET n == NewId(s)
             lst == Append(s.image_history, n)
         IN [s EXCEPT !.heap[n] = Img(s, s.processed_image),
                      !.image_history = lst,
                      !.current_history_index = Len(lst) - 1]
    ELSE s

add_to_history(s) ==
    IF s.processed_image # None
    THEN LET kept == Slice(s.image_history, s.current_history_index + 1)
             s1 == [s EXCEPT !.image_history = kept]
             n == NewId(s1)
             lst == Append(kept, n)
         IN [s1 EXCEPT !.heap[n] = Img(s, s.processed_image),
                       !.image_history = lst,
                       !.current_history_index = Len(lst) - 1]
    ELSE s

\* Python indexing: lst[i] for i >= 0, lst[len + i] for i < 0
PyIndex(lst, i) == IF i >= 0 THEN lst[i + 1] ELSE lst[Len(lst) + i + 1]

\* undo with the guard off by one (>= 0): from index 0 it steps to -1
undo_from_zero(s) ==
    IF s.current_history_index >= 0
    THEN LET i == s.current_history_index - 1
             s1 == [s EXCEPT !.current_history_index = i]
         IN update_image_display(
                CopyInto(s1, "processed_image", PyIndex(s.image_history, i)))
    ELSE s

\* undo that binds processed_image to the stored array instead of a copy
undo_alias(s) ==
    IF s.current_history_index > 0
    THEN LET i == s.current_history_index - 1
         IN update_image_display(
                [s EXCEPT !.current_history_index = i,
                          !.processed_image = s.image_history[i + 1]])
    ELSE s

undo(s) ==
    IF s.current_history_index > 0
    THEN LET i == s.current_history_index - 1
             s1 == [s EXCEPT !.current_history_index = i]
         IN update_image_display(
                CopyInto(s1, "processed_image", s.image_history[i + 1]))
    ELSE s

\* redo with the guard off by one (<=): at the last entry it steps past it,
\* and the list index then raises after the index was incremented
redo_past_end(s) ==
    IF s.current_history_index <= Len(s.image_history) - 1
    THEN LET i == s.current_history_index + 1
             s1 == [s EXCEPT !.current_history_index = i]
         IN IF i + 1 > Len(s.image_history)
            THEN s1
            ELSE update_image_display(
                     CopyInto(s1, "processed_image", s.image_history[i + 1]))
    ELSE s

\* redo that jumps to the newest entry
redo_to_last(s) ==
    IF s.current_history_index < Len(s.image_history) - 1
    THEN LET i == Len(s.image_history) - 1
             s1 == [s EXCEPT !.current_history_index = i]
         IN update_image_display(
                CopyInto(s1, "processed_image", s.image_history[i + 1]))
    ELSE s

redo(s) ==
    IF s.current_history_index < Len(s.image_history) - 1
    THEN LET i == s.current_history_index + 1
             s1 == [s EXCEPT !.current_history_index = i]
         IN update_image_display(
                CopyInto(s1, "processed_image", s.image_history[i + 1]))
    ELSE s

-----------------------------------------------------------------------------
(* Images and the library calls on them *)

\* cv2.imread / cap.read() result: a 3-channel image with nothing applied
Decoded(src) == [src |-> src, n |-> 0, ch |-> 3, ops |-> <<>>]

Op(name, a, b, c, d) == <<name, a, b, c, d>>
With(img, op) == [img EXCEPT !.ops = Append(@, op)]

\* kernel size of the Gaussian Blur branch
\* the kernel size without the step to the next odd number
KernelSize_even(value) ==
    IF value < 1 THEN 1 ELSE value

KernelSize(value) ==
    LET k1 == IF value < 1 THEN 1 ELSE value
    IN IF k1 % 2 = 0 THEN k1 + 1 ELSE k1

\* cv2.cvtColor(img, COLOR_BGR2GRAY): the 1-channel intermediate
BGR2GRAY(img) == [With(img, Op("BGR2GRAY", 0, 0, 0, 0)) EXCEPT !.ch = 1]

\* the library calls of a branch that read a BGR image raise on a 1-channel one
NeedsBGR(filter_name) ==
    filter_name \in {"Grayscale", "Edge Detection", "Hue Adjustment"}

\* number of library calls of each branch of apply_filter
NCalls(filter_name) ==
    CASE filter_name = "Grayscale" -> 2
      [] filter_name = "Gaussian Blur" -> 1
      [] filter_name = "Edge Detection" -> 3
      [] filter_name = "Sharpen" -> 1
      [] filter_name = "Brightness/Contrast" -> 1
      [] filter_name = "Hue Adjustment" -> 3

\* the image a branch of apply_filter computes from img when no call raises
Transform(filter_name, img, blur, brightness) ==
    CASE filter_name = "Grayscale" ->
            [With(img, Op("Grayscale", 0, 0, 0, 0)) EXCEPT !.ch = 3]
      [] filter_name = "Gaussian Blur" ->
            \* a 1x1 kernel copies the source
            IF KernelSize(blur) = 1 THEN img
            ELSE With(img, Op("Gaussian Blur", KernelSize(blur), 0, 0, 0))
      [] filter_name = "Edge Detection" ->
            With(img, Op("Edge Detection", 100, 200, 0, 0))
      [] filter_name = "Sharpen" ->
            With(img, Op("Sharpen", 9, -1, 0, 0))
      [] filter_name = "Brightness/Contrast" ->
            \* convertScaleAbs with alpha = 1, beta = 0 is |x| = x on 8-bit pixels
            IF brightness = 0 THEN img
            ELSE With(img, Op("Brightness/Contrast", brightness, 0, 0, 0))
      [] filter_name = "Hue Adjustment" ->
            With(img, Op("Hue Adjustment", 30, 180, 0, 0))

\* the hue channel of the Hue Adjustment branch, one pixel:
\* hsv[:,:,0] = (hsv[:,:,0] + 30) % 180 in uint8 arithmetic
HueStep == 30
HueMod == 180
Uint8 == 256

\* the hue update with a step of 45
HueShift_45(h) == ((h + 45) % Uint8) % HueMod

HueShift(h) == ((h + HueStep) % Uint8) % HueMod

-----------------------------------------------------------------------------
(* Loading, filters, reset *)

Say(s, m) == [s EXCEPT !.msg = m]

\* cv2.imread returns None for a file it cannot decode; displayRaises: the
\* update_image_display call inside the try block raises
\* open_image without the .copy(): processed_image is the original array
open_image_alias(s, file_name, displayRaises) ==
    IF file_name # ""
    THEN IF file_name \in BadFiles
         THEN Say([s EXCEPT !.original_image = None], "critical")
         ELSE LET s1 == NewInto(s, "original_image", Decoded(file_name))
                  s2 == [s1 EXCEPT !.processed_image = s1.original_image]
              IN IF displayRaises
                 THEN Say(s2, "critical")
                 ELSE add_to_history(update_image_display(s2))
    ELSE s

open_image(s, file_name, displayRaises) ==
    IF file_name # ""
    THEN IF file_name \in BadFiles
         THEN Say([s EXCEPT !.original_image = None], "critical")
         ELSE LET s1 == NewInto(s, "original_image", Decoded(file_name))
                  s2 == CopyInto(s1, "processed_image", s1.original_image)
              IN IF displayRaises
                 THEN Say(s2, "critical")
                 ELSE add_to_history(update_image_display(s2))
    ELSE s

dropEvent(s, files, displayRaises) ==
    IF files # <<>>
    THEN IF files[1] \in BadFiles
         THEN Say([s EXCEPT !.original_image = None], "critical")
         ELSE LET s1 == NewInto(s, "original_image", Decoded(files[1]))
                  s2 == CopyInto(s1, "processed_image", s1.original_image)
              IN IF displayRaises
                 THEN Say(s2, "critical")
                 ELSE add_to_history(update_image_display(s2))
    ELSE s

\* failAt = 0: no library call raises; failAt in 1..NCalls: that call of the
\* branch raises; failAt = NCalls + 1: the display refresh raises
\* apply_filter that transforms original_image instead of processed_image
apply_filter_from_original(s, filter_name, blur, brightness, failAt) ==
    IF s.processed_image = None
    THEN Say(s, "warning")
    ELSE LET img == IF s.original_image # None
                    THEN Img(s, s.original_image)
                    ELSE Img(s, s.processed_image)
             n == NCalls(filter_name)
             s1 == IF failAt = 0 \/ failAt > n
                   THEN NewInto(s, "processed_image",
                                Transform(filter_name, img, blur, brightness))
                   ELSE IF filter_name = "Grayscale" /\ failAt = 2
                   THEN NewInto(s, "processed_image", BGR2GRAY(img))
                   ELSE s
         IN IF failAt = 0
            THEN add_to_history(update_image_display(s1))
            ELSE Say(s1, "critical")

apply_filter(s, filter_name, blur, brightness, failAt) ==
    IF s.processed_image = None
    THEN Say(s, "warning")
    ELSE LET img == Img(s, s.processed_image)
             n == NCalls(filter_name)
             s1 == IF failAt = 0 \/ failAt > n
                   THEN NewInto(s, "processed_image",
                                Transform(filter_name, img, blur, brightness))
                   ELSE IF filter_name = "Grayscale" /\ failAt = 2
                   THEN NewInto(s, "processed_image", BGR2GRAY(img))
                   ELSE s
         IN IF failAt = 0
            THEN add_to_history(update_image_display(s1))
            ELSE Say(s1, "critical")

\* the values of failAt possible on the current image
FilterFailures(s, filter_name) ==
    IF s.processed_image # None /\ NeedsBGR(filter_name)
       /\ Img(s, s.processed_image).ch = 1
    THEN {1}
    ELSE 0..(NCalls(filter_name) + 1)

reset_image(s) ==
    IF s.original_image # None
    THEN LET s1 == CopyInto(s, "processed_image", s.original_image)
         IN add_to_history(update_image_display(s1))
    ELSE Say(s, "warning")

clear_drawing(s) ==
    IF s.original_image # None
    THEN LET s1 == CopyInto(s, "processed_image", s.original_image)
         IN add_to_history(update_image_display(s1))
    ELSE s

-----------------------------------------------------------------------------
(* Live capture *)

\* stop_live_preview without timer.stop()
stop_live_preview_keeps_timer(s) ==
    [s EXCEPT !.is_live_preview = FALSE,
              !.cap = IF @ # "none" THEN "released" ELSE @]

stop_live_preview(s) ==
    [s EXCEPT !.is_live_preview = FALSE,
              !.cap = IF @ # "none" THEN "released" ELSE @,
              !.timer = IF @ # "none" THEN "stopped" ELSE @]

\* start_live_preview whose except clause only shows the error
start_live_preview_no_cleanup(s, opened) ==
    LET s1 == [s EXCEPT !.is_live_preview = TRUE,
                        !.cap = IF opened THEN "opened" ELSE "closed",
                        !.handles = IF s.cap # "none"
                                    THEN Append(@, s.cap) ELSE @]
    IN IF s1.cap # "opened"
       THEN Say(s1, "critical")
       ELSE [s1 EXCEPT !.timer = "running"]

\* opened: whether cv2.VideoCapture(0) opened the device; the handle self.cap
\* referred to is replaced, not released
start_live_preview(s, opened) ==
    LET s1 == [s EXCEPT !.is_live_preview = TRUE,
                        !.cap = IF opened THEN "opened" ELSE "closed",
                        !.handles = IF s.cap # "none"
                                    THEN Append(@, s.cap) ELSE @]
    IN IF s1.cap # "opened"
       THEN stop_live_preview(Say(s1, "critical"))
       ELSE [s1 EXCEPT !.timer = "running"]

\* update_live_preview that records every frame it shows
update_live_preview_records(s, ret, frame) ==
    IF s.is_live_preview /\ s.cap # "none"
    THEN IF s.cap = "opened" /\ ret
         THEN add_to_history(update_image_display(
                  NewInto(s, "processed_image", Decoded(frame))))
         ELSE s
    ELSE s

\* ret, frame: what cap.read() returns on the opened device
update_live_preview(s, ret, frame) ==
    IF s.is_live_preview /\ s.cap # "none"
    THEN IF s.cap = "opened" /\ ret
         THEN update_image_display(NewInto(s, "processed_image", Decoded(frame)))
         ELSE s
    ELSE s

-----------------------------------------------------------------------------
(* Drawing overlay *)

NoPoint == <<>>

\* int(x): truncation toward zero of the quotient a / b, b > 0
TruncDiv(a, b) == IF a >= 0 THEN a \div b ELSE -((-a) \div b)

\* get_image_rect returns image_label.rect(): origin (0, 0), the label's size
RectX == 0
RectY == 0
\* img_rect.contains(pt) for a label of W x H pixels
InRect(pt, W, H) ==
    /\ RectX <= pt[1] /\ pt[1] <= RectX + W - 1
    /\ RectY <= pt[2] /\ pt[2] <= RectY + H - 1

Contains(pt) == InRect(pt, ViewW, ViewH)

\* viewport coordinate to image pixel, as mouse_move_event computes it:
\* int((x - img_rect.x()) * shape[1] / img_rect.width()), and the same for
\* y with shape[0] and img_rect.height()
MapX(x, w, W) == TruncDiv((x - RectX) * w, W)
MapY(y, h, H) == TruncDiv((y - RectY) * h, H)

ToImageX(x, img) == MapX(x, ImgW, ViewW)
ToImageY(y, img) == MapY(y, ImgH, ViewH)

\* cv2.line writes into the object processed_image refers to
DrawLine(s, from, to) ==
    LET img == Img(s, s.processed_image)
        seg == Op("line", ToImageX(from[1], img), ToImageY(from[2], img),
                          ToImageX(to[1], img), ToImageY(to[2], img))
    IN [s EXCEPT !.heap[s.processed_image] = With(img, seg)]

\* mouse_press_event without the test for an image
mouse_press_event_unguarded(s, pos) ==
    [s EXCEPT !.is_drawing = TRUE, !.last_point = pos]

mouse_press_event(s, pos) ==
    IF s.processed_image # None
    THEN [s EXCEPT !.is_drawing = TRUE, !.last_point = pos]
    ELSE s

\* mouse_move_event that records a snapshot after every segment
mouse_move_event_records(s, current_point) ==
    IF s.is_drawing /\ s.processed_image # None
    THEN IF s.last_point # NoPoint
         THEN IF ~s.pixmap
              THEN Say(s, "raised")
              ELSE LET s1 == IF Contains(current_point)
                             THEN add_to_history(update_image_display(
                                      DrawLine(s, s.last_point, current_point)))
                             ELSE s
                   IN [s1 EXCEPT !.last_point = current_point]
         ELSE [s EXCEPT !.last_point = current_point]
    ELSE s

\* get_image_rect returns None while the label has no pixmap, and the
\* handler then raises at img_rect.contains before it changes anything
mouse_move_event(s, current_point) ==
    IF s.is_drawing /\ s.processed_image # None
    THEN IF s.last_point # NoPoint
         THEN IF ~s.pixmap
              THEN Say(s, "raised")
              ELSE LET s1 == IF Contains(current_point)
                             THEN update_image_display(
                                      DrawLine(s, s.last_point, current_point))
                             ELSE s
                   IN [s1 EXCEPT !.last_point = current_point]
         ELSE [s EXCEPT !.last_point = current_point]
    ELSE s

mouse_release_event(s) ==
    add_to_history([s EXCEPT !.is_drawing = FALSE, !.last_point = NoPoint])

-----------------------------------------------------------------------------
(* The state a step leaves.  Object ids are not observable, and of the     *)
(* pixels only which images are equal is kept: every live object takes the *)
(* number of the first of the places original, processed, history[0],      *)
(* history[1], ... that refers to it, and every image is named by the      *)
(* first place that holds it.  The replaced capture handles are dropped.   *)

Canon(s) ==
    LET L == Refs(s)
        slot(r) == IF r = None THEN None
                   ELSE CHOOSE k \in 1..Len(L) :
                            L[k] = r /\ \A j \in 1..(k - 1) : L[j] # r
        first(c) == CHOOSE k \in 1..Len(L) :
                        /\ L[k] # None /\ s.heap[L[k]] = c
                        /\ \A j \in 1..(k - 1) : L[j] = None \/ s.heap[L[j]] # c
        name(c) == [src |-> "img", n |-> first(c), ch |-> c.ch, ops |-> <<>>]
    IN [s EXCEPT
          !.original_image = slot(s.original_image),
          !.processed_image = slot(s.processed_image),
          !.image_history = [k \in 1..Len(s.image_history) |-> slot(s.image_history[k])],
          !.heap = [n \in Ids |-> IF n <= Len(L) /\ L[n] # None /\ slot(L[n]) = n
                                  THEN name(s.heap[L[n]]) ELSE Free],
          !.handles = <<>>]

\* the model's bound on a step's result
Bounded(s) == Len(s.image_history) <= MaxHist

\* a handler's result becomes the next state
Commit(r) ==
    \E s \in {r} :
      /\ Bounded(s)
      /\ \E c \in {Canon(s)} :
          /\ original_image' = c.original_image
          /\ processed_image' = c.processed_image
          /\ image_history' = c.image_history
          /\ current_history_index' = c.current_history_index
          /\ heap' = c.heap
          /\ pixmap' = c.pixmap
          /\ is_live_preview' = c.is_live_preview
          /\ cap' = c.cap
          /\ timer' = c.timer
          /\ is_drawing' = c.is_drawing
          /\ last_point' = c.last_point
          /\ mouse_down' = c.mouse_down
          /\ handles' = c.handles
          /\ UNCHANGED <<phase, recorded, yielded, mapped, blur_slider, hue,
                         stroke>>

-----------------------------------------------------------------------------
(* The state after construction *)

\* no segment drawn, no stroke ended
NoStroke == [segs |-> <<>>, done |-> FALSE]

AppInit ==
    /\ original_image = None
    /\ processed_image = None
    /\ image_history = <<>>
    /\ current_history_index = -1
    /\ heap = [n \in Ids |-> Free]
    /\ pixmap = FALSE
    /\ is_live_preview = FALSE
    /\ cap = "none"
    /\ timer = "none"
    /\ is_drawing = FALSE
    /\ last_point = NoPoint
    /\ mouse_down = FALSE
    /\ handles = <<>>
    /\ blur_slider = BlurDefault
    /\ stroke = NoStroke
    /\ phase = "record"
    /\ recorded = <<>>
    /\ yielded = <<>>

\* no mapping is computed outside SpecMapping
NoMapping == [W |-> 0, H |-> 0, w |-> 0, h |-> 0,
              from |-> <<>>, to |-> <<>>, seg |-> <<>>]

\* no hue value is followed outside SpecHue
NoHue == [h0 |-> 0, h |-> 0, n |-> 0, sum |-> 0]

Init == AppInit /\ mapped = NoMapping /\ hue = NoHue

-----------------------------------------------------------------------------
(* The results each handler can produce in the current state, over the     *)
(* inputs of the model, and one action per handler.  A move or a release   *)
(* is delivered only after a press, a timeout only by a running timer.     *)

OpenImageResults ==
    {open_image(Cur, file_name, displayRaises) :
        file_name \in Files, displayRaises \in BOOLEAN}

DropEventResults ==
    {dropEvent(Cur, files, displayRaises) :
        files \in {<<>>} \cup {<<f>> : f \in Files \ {""}},
        displayRaises \in BOOLEAN}

\* a filter requested with the sliders at blur and brightness
FilterResults(filter_name, blur, brightness) ==
    {apply_filter(Cur, filter_name, blur, brightness, failAt) :
        failAt \in FilterFailures(Cur, filter_name)}

\* a filter button or toolbar action of a filter that reads no slider
ApplyFilterResults ==
    UNION {FilterResults(filter_name, 0, 0) : filter_name \in Filters}

\* blur_slider.valueChanged, or the Gaussian Blur button / toolbar action
BlurResults ==
    UNION {FilterResults("Gaussian Blur", value, 0) : value \in BlurValues}

\* brightness_slider.valueChanged, or the Brightness/Contrast toolbar action
BrightnessResults ==
    UNION {FilterResults("Brightness/Contrast", 0, value) : value \in BrightValues}

\* every filter request <<filter_name, blur, brightness>> of the model: a
\* filter reads the slider of its own branch only
FilterRequests ==
    {<<filter_name, 0, 0>> :
        filter_name \in FilterNames \ {"Gaussian Blur", "Brightness/Contrast"}}
    \cup {<<"Gaussian Blur", value, 0>> : value \in BlurValues}
    \cup {<<"Brightness/Contrast", 0, value>> : value \in BrightValues}

StartResults == {start_live_preview(Cur, opened) : opened \in BOOLEAN}

TickResults ==
    IF timer = "running"
    THEN {update_live_preview(Cur, ret, frame) : ret \in BOOLEAN, frame \in Frames}
    ELSE {}

PressResults ==
    IF ~mouse_down
    THEN {[mouse_press_event(Cur, pos) EXCEPT !.mouse_down = TRUE] : pos \in Points}
    ELSE {}

MoveResults ==
    IF mouse_down
    THEN {mouse_move_event(Cur, current_point) : current_point \in Points}
    ELSE {}

ReleaseResults ==
    IF mouse_down
    THEN {[mouse_release_event(Cur) EXCEPT !.mouse_down = FALSE]}
    ELSE {}

OpenImage == \E r \in OpenImageResults : Commit(r)
DropEvent == \E r \in DropEventResults : Commit(r)
ApplyFilter == \E r \in ApplyFilterResults : Commit(r)
BlurSliderChanged == \E r \in BlurResults : Commit(r)
BrightnessSliderChanged == \E r \in BrightnessResults : Commit(r)
ResetImage == Commit(reset_image(Cur))
ClearDrawing == Commit(clear_drawing(Cur))
Undo == Commit(undo(Cur))
Redo == Commit(redo(Cur))
StartLivePreview == \E r \in StartResults : Commit(r)
StopLivePreview == Commit(stop_live_preview(Cur))
Tick == \E r \in TickResults : Commit(r)
MousePress == \E r \in PressResults : Commit(r)
MouseMove == \E r \in MoveResults : Commit(r)
MouseRelease == \E r \in ReleaseResults : Commit(r)

Next ==
    \/ OpenImage
    \/ DropEvent
    \/ ApplyFilter
    \/ BlurSliderChanged
    \/ BrightnessSliderChanged
    \/ ResetImage
    \/ ClearDrawing
    \/ Undo
    \/ Redo
    \/ StartLivePreview
    \/ StopLivePreview
    \/ Tick
    \/ MousePress
    \/ MouseMove
    \/ MouseRelease

Spec == Init /\ [][Next]_vars

-----------------------------------------------------------------------------
(* The round trip: from the empty history, records (load, filter, reset,   *)
(* stroke) up to MaxN of them, then undo as far as it goes, then redo.     *)
(* The state a step leaves is the handler's result as it is.               *)

AppSet(r) ==
    /\ original_image' = r.original_image
    /\ processed_image' = r.processed_image
    /\ image_history' = r.image_history
    /\ current_history_index' = r.current_history_index
    /\ heap' = r.heap
    /\ pixmap' = r.pixmap
    /\ is_live_preview' = r.is_live_preview
    /\ cap' = r.cap
    /\ timer' = r.timer
    /\ is_drawing' = r.is_drawing
    /\ last_point' = r.last_point
    /\ mouse_down' = r.mouse_down
    /\ handles' = r.handles

RtSet(r) == AppSet(r) /\ UNCHANGED <<mapped, blur_slider, hue, stroke>>

\* a handler that recorded: its result, and the image it recorded
RtRecord(r) ==
    /\ RtSet(r)
    /\ recorded' = Append(recorded, Img(r, r.processed_image))
    /\ UNCHANGED <<phase, yielded>>

RtCanEdit == phase = "record" /\ ~mouse_down /\ Len(recorded) < MaxN

\* segments drawn since the last record
Segments ==
    Len(Img(Cur, processed_image).ops) - Len(recorded[Len(recorded)].ops)

RtOpen ==
    /\ RtCanEdit
    /\ \E f \in GoodFiles : RtRecord(open_image(Cur, f, FALSE))

RtFilter ==
    /\ RtCanEdit
    /\ processed_image # None
    /\ \E q \in FilterRequests :
          /\ 0 \in FilterFailures(Cur, q[1])
          /\ RtRecord(apply_filter(Cur, q[1], q[2], q[3], 0))

RtReset ==
    /\ RtCanEdit
    /\ original_image # None
    /\ RtRecord(reset_image(Cur))

RtPress ==
    /\ RtCanEdit
    /\ processed_image # None
    /\ \E r \in PressResults : RtSet(r)
    /\ UNCHANGED <<phase, recorded, yielded>>

RtMove ==
    /\ phase = "record"
    /\ mouse_down
    /\ Segments < MaxSeg
    /\ \E r \in MoveResults : RtSet(r)
    /\ UNCHANGED <<phase, recorded, yielded>>

RtRelease ==
    /\ phase = "record"
    /\ mouse_down
    /\ \E r \in ReleaseResults : RtRecord(r)

\* the undos: one fewer than the records
RtUndo ==
    /\ phase \in {"record", "undo"}
    /\ ~mouse_down
    /\ Len(yielded) < Len(recorded) - 1
    /\ LET r == undo(Cur)
       IN /\ RtSet(r)
          /\ yielded' = Append(yielded, Img(r, r.processed_image))
    /\ phase' = "undo"
    /\ UNCHANGED recorded

\* then the redos: as many as the undos
RtRedo ==
    /\ phase \in {"undo", "redo"}
    /\ Len(yielded) >= Len(recorded) - 1
    /\ Len(yielded) < 2 * (Len(recorded) - 1)
    /\ LET r == redo(Cur)
       IN /\ RtSet(r)
          /\ yielded' = Append(yielded, Img(r, r.processed_image))
    /\ phase' = "redo"
    /\ UNCHANGED recorded

RtNext ==
    \/ RtOpen
    \/ RtFilter
    \/ RtReset
    \/ RtPress
    \/ RtMove
    \/ RtRelease
    \/ RtUndo
    \/ RtRedo

SpecRoundTrip == Init /\ [][RtNext]_vars

-----------------------------------------------------------------------------
(* The coordinate mapping of mouse_move_event on its own: for a label of   *)
(* W x H pixels showing an image of w x h pixels, the segment computed for *)
(* a move from one pointer position to another.                            *)

MapViews == {<<4, 4>>, <<4, 6>>, <<6, 4>>}
MapShapes == {<<4, 4>>, <<4, 2>>, <<2, 4>>}
MapPoints(v) == (0..(v[1] - 1)) \X (0..(v[2] - 1))

MapInputs ==
    UNION {{[W |-> q[1][1], H |-> q[1][2], w |-> q[2][1], h |-> q[2][2],
             from |-> a, to |-> b, seg |-> <<>>] :
                a \in MapPoints(q[1]), b \in MapPoints(q[1])} :
           q \in MapViews \X MapShapes}

MapInit == AppInit /\ mapped \in MapInputs /\ hue = NoHue

\* the endpoints mouse_move_event passes to cv2.line for a move from
\* mapped.from to mapped.to
MapSegment ==
    /\ mapped.seg = <<>>
    /\ InRect(mapped.to, mapped.W, mapped.H)
    /\ mapped' = [mapped EXCEPT !.seg =
                     <<MapX(mapped.from[1], mapped.w, mapped.W),
                       MapY(mapped.from[2], mapped.h, mapped.H),
                       MapX(mapped.to[1], mapped.w, mapped.W),
                       MapY(mapped.to[2], mapped.h, mapped.H)>>]
    /\ UNCHANGED <<original_image, processed_image, image_history,
                   current_history_index, heap, pixmap, is_live_preview,
                   cap, timer, is_drawing, last_point, mouse_down,
                   phase, recorded, yielded, handles, blur_slider, hue,
                   stroke>>

MapNext == MapSegment

SpecMapping == MapInit /\ [][MapNext]_vars

-----------------------------------------------------------------------------
(* The capture handles: start, stop and tick with the replaced handles     *)
(* followed, and the runtime finalizing a handle nothing refers to.        *)

CamSet(r) == RtSet(r) /\ UNCHANGED <<phase, recorded, yielded>>

CamStart ==
    \E opened \in BOOLEAN :
       LET r == start_live_preview(Cur, opened)
       IN Len(r.handles) <= MaxHandles /\ CamSet(r)

CamStop == CamSet(stop_live_preview(Cur))

CamTick == \E r \in TickResults : CamSet(r)

\* the finalizer of an unreferenced cv2.VideoCapture releases the device
CamFinalize ==
    \E i \in 1..Len(handles) :
       /\ handles[i] = "opened"
       /\ CamSet([Cur EXCEPT !.handles[i] = "released"])

CamNext ==
    \/ CamStart
    \/ CamStop
    \/ CamTick
    \/ CamFinalize

SpecCamera == Init /\ [][CamNext]_vars

-----------------------------------------------------------------------------
(* The blur slider: an image is loaded, then the slider is moved and the   *)
(* Gaussian Blur branch runs with the value it reads, up to MaxBlurs       *)
(* times.  The values below BlurMin are values the slider cannot take,     *)
(* which the branch guards against all the same.                           *)

KernelInputs == (BlurMin - 2)..BlurMax

KernelOpen ==
    /\ processed_image = None
    /\ \E f \in GoodFiles : AppSet(open_image(Cur, f, FALSE))
    /\ UNCHANGED <<phase, recorded, yielded, mapped, blur_slider, hue, stroke>>

KernelBlur ==
    /\ processed_image # None
    /\ Len(image_history) <= MaxBlurs
    /\ \E value \in KernelInputs :
          /\ blur_slider' = value
          /\ AppSet(apply_filter(Cur, "Gaussian Blur", value, 0, 0))
    /\ UNCHANGED <<phase, recorded, yielded, mapped, hue, stroke>>

KernelNext ==
    \/ KernelOpen
    \/ KernelBlur

SpecKernel == Init /\ [][KernelNext]_vars

-----------------------------------------------------------------------------
(* The hue channel: a hue value as cv2 gives it for an 8-bit image         *)
(* (0..179), and the Hue Adjustment branch run on it up to MaxShifts       *)
(* times.  h0 is the value at the start, n the number of runs, sum the     *)
(* sum h + 30 of the last run before it is reduced.                        *)

HueInputs == {[h0 |-> h, h |-> h, n |-> 0, sum |-> h] : h \in 0..(HueMod - 1)}

HueInit == AppInit /\ mapped = NoMapping /\ hue \in HueInputs

HueAdjust ==
    /\ hue.n < MaxShifts
    /\ hue' = [hue EXCEPT !.h = HueShift(hue.h),
                          !.n = hue.n + 1,
                          !.sum = hue.h + HueStep]
    /\ UNCHANGED <<original_image, processed_image, image_history,
                   current_history_index, heap, pixmap, is_live_preview,
                   cap, timer, is_drawing, last_point, mouse_down,
                   phase, recorded, yielded, mapped, handles, blur_slider,
                   stroke>>

HueNext == HueAdjust

SpecHue == HueInit /\ [][HueNext]_vars

-----------------------------------------------------------------------------
(* Strokes under live capture: an image is loaded or the capture started,  *)
(* and pointer events interleave with capture ticks, for up to MaxStrokes  *)
(* pointer-ups and MaxSeg segments in a stroke.  The state a step leaves   *)
(* is the handler's result as it is.                                       *)

StSet(r) ==
    AppSet(r) /\ UNCHANGED <<phase, recorded, yielded, mapped, blur_slider, hue>>

StOpen ==
    /\ original_image = None
    /\ \E f \in GoodFiles : StSet(open_image(Cur, f, FALSE))
    /\ UNCHANGED stroke

StStart ==
    /\ cap = "none"
    /\ StSet(start_live_preview(Cur, TRUE))
    /\ UNCHANGED stroke

StTick ==
    /\ \E r \in TickResults : StSet(r)
    /\ UNCHANGED stroke

StPress ==
    /\ Len(image_history) < MaxStrokes
    /\ \E r \in PressResults : StSet(r)
    /\ stroke' = NoStroke

\* a move; the segment it has drawn, if any, is the last one applied to
\* the image
StMove ==
    /\ Len(stroke.segs) < MaxSeg
    /\ \E r \in MoveResults :
          /\ StSet(r)
          /\ stroke' =
                IF ImgOrNone(r, r.processed_image) # ImgOrNone(Cur, processed_image)
                THEN LET ops == Img(r, r.processed_image).ops
                     IN [stroke EXCEPT !.segs = Append(@, ops[Len(ops)])]
                ELSE stroke

StRelease ==
    /\ \E r \in ReleaseResults : StSet(r)
    /\ stroke' = [stroke EXCEPT !.done = is_drawing]

StNext ==
    \/ StOpen
    \/ StStart
    \/ StTick
    \/ StPress
    \/ StMove
    \/ StRelease

SpecStroke == Init /\ [][StNext]_vars

-----------------------------------------------------------------------------
(* What the properties below read.  A property about a handler is stated   *)
(* on the handler's result in every reachable state, for every input of    *)
(* the model, before the result is renumbered.                             *)

\* the stored snapshots, oldest first
HistImgs(s) == [k \in 1..Len(s.image_history) |-> Img(s, s.image_history[k])]

\* no two of original, processed and the history entries are one object
NoAlias(s) ==
    \A j, k \in 1..Len(Refs(s)) :
        (j # k /\ Refs(s)[j] # None) => Refs(s)[j] # Refs(s)[k]

IndexInRange(s) ==
    IF s.image_history = <<>>
    THEN s.current_history_index = -1
    ELSE /\ 0 <= s.current_history_index
         /\ s.current_history_index <= Len(s.image_history) - 1

\* r is s after exactly one snapshot of r's processed image was recorded
\* at the position after s's index
Recorded(s, r) ==
    LET i == s.current_history_index
    IN /\ Len(r.image_history) = i + 2
       /\ r.current_history_index = i + 1
       /\ \A k \in 1..(i + 1) :
              Img(r, r.image_history[k]) = Img(s, s.image_history[k])
       /\ Img(r, r.image_history[i + 2]) = Img(r, r.processed_image)
       /\ r.image_history[i + 2] # r.processed_image

\* the history and the index are what they were
HistoryKept(s, r) ==
    /\ r.image_history = s.image_history
    /\ HistImgs(r) = HistImgs(s)
    /\ r.current_history_index = s.current_history_index

\* the results of every filter request, failures included
AllFilterResults ==
    UNION {FilterResults(q[1], q[2], q[3]) : q \in FilterRequests}

AllResults ==
    OpenImageResults \cup DropEventResults \cup AllFilterResults
    \cup {reset_image(Cur), clear_drawing(Cur), undo(Cur), redo(Cur),
          stop_live_preview(Cur)}
    \cup StartResults \cup TickResults
    \cup PressResults \cup MoveResults \cup ReleaseResults

-----------------------------------------------------------------------------
\* C1: the history index invariant.  Whenever the history is non-empty the
\* index satisfies 0 <= index <= length - 1, and while the history is empty
\* the index is -1; this holds in every reachable state and in the state
\* every handler leaves.
C1_IndexInvariant ==
    /\ IndexInRange(Cur)
    /\ \A r \in AllResults : IndexInRange(r)

\* an undo has moved the index to the first of several entries
C1_Witness ==
    /\ Len(image_history) >= 2
    /\ current_history_index = 0
    /\ IndexInRange(undo(Cur))

-----------------------------------------------------------------------------
\* C2: recording a snapshot at index i (add_to_history with an image
\* present) discards the entries after position i, appends a copy of the
\* Processed Image, and leaves index = i + 1 and length = i + 2, the
\* entries up to i as they were; a redo right after it changes nothing.
\* Stated for the bare call and for a call that follows a change of the
\* Processed Image (reset).
C2_RecordTruncatesAndAppends ==
    /\ processed_image # None =>
          LET r == add_to_history(Cur)
          IN /\ Recorded(Cur, r)
             /\ Img(r, r.processed_image) = Img(Cur, processed_image)
             /\ redo(r) = r
    /\ original_image # None =>
          LET r == reset_image(Cur)
          IN Recorded(Cur, r) /\ redo(r) = r

\* a record in a state with a redo tail: the tail is discarded
C2_Witness ==
    /\ processed_image # None
    /\ current_history_index >= 0
    /\ current_history_index < Len(image_history) - 1
    /\ Len(add_to_history(Cur).image_history) = Len(image_history)

-----------------------------------------------------------------------------
\* C3: starting from the empty history, N >= 1 records followed by N - 1
\* undos and then N - 1 redos: the history keeps its N entries, the j-th
\* undo yields a Processed Image equal to record N - j (N - 1, ..., 1) and
\* the m-th redo one equal to record m + 1 (2, ..., N), and the index
\* follows.
C3_UndoRedoRoundTrip ==
    LET N == Len(recorded)
    IN /\ Len(image_history) = N
       /\ HistImgs(Cur) = recorded
       /\ Len(yielded) <= 2 * (N - 1) \/ N = 0
       /\ \A j \in 1..Len(yielded) :
             yielded[j] = IF j <= N - 1 THEN recorded[N - j]
                          ELSE recorded[j - N + 2]
       /\ phase = "record" => current_history_index = N - 1
       /\ phase = "undo" => current_history_index = N - 1 - Len(yielded)
       /\ phase = "redo" => current_history_index = Len(yielded) - (N - 1)
       /\ phase # "record" =>
             Img(Cur, processed_image) = recorded[current_history_index + 1]

\* three different images recorded, two undos and two redos done
C3_Witness ==
    /\ phase = "redo"
    /\ Len(recorded) = 3
    /\ Len(yielded) = 4
    /\ recorded[1] # recorded[2]
    /\ recorded[2] # recorded[3]
    /\ recorded[1] # recorded[3]
    /\ yielded = <<recorded[2], recorded[1], recorded[2], recorded[3]>>

-----------------------------------------------------------------------------
\* C4: undo with index <= 0 (empty or single-entry history included) and
\* redo at the last entry change nothing at all; undo and redo never change
\* the length or the contents of the history, nor Original Image, the
\* capture or the pointer state: only the index and the Processed Image
\* (and its display).
C4_UndoRedoBoundaries ==
    /\ current_history_index <= 0 => undo(Cur) = Cur
    /\ current_history_index >= Len(image_history) - 1 => redo(Cur) = Cur
    /\ \A r \in {undo(Cur), redo(Cur)} :
          /\ r.image_history = image_history
          /\ HistImgs(r) = HistImgs(Cur)
          /\ r.original_image = original_image
          /\ ImgOrNone(r, r.original_image) = ImgOrNone(Cur, original_image)
          /\ [r EXCEPT !.current_history_index = current_history_index,
                       !.processed_image = processed_image,
                       !.heap = heap,
                       !.pixmap = pixmap] = Cur

\* at the first of two entries: undo is at its boundary, redo is not;
\* and at the last of two entries the other way round
C4_Witness ==
    /\ Len(image_history) = 2
    /\ current_history_index = 0
    /\ undo(Cur) = Cur
    /\ redo(Cur) # Cur

-----------------------------------------------------------------------------
\* C5: stored snapshots are immutable.  No handler (in-place drawing
\* included) changes the pixels of an entry that stays in the history: a
\* position holds what it held unless a record has truncated it away and
\* appended a new entry there.  Processed Image, Original Image and the
\* entries are never the same object.
C5_SnapshotsImmutable ==
    /\ NoAlias(Cur)
    /\ \A r \in AllResults :
          /\ NoAlias(r)
          /\ \A k \in 1..Min(Len(image_history), Len(r.image_history)) :
                \/ Img(r, r.image_history[k]) = Img(Cur, image_history[k])
                \/ /\ k = current_history_index + 2
                   /\ Len(r.image_history) = k
                   /\ r.current_history_index = k - 1

\* a pointer move draws a segment into the Processed Image while the
\* history holds the snapshot the image was copied from by an undo
C5_Witness ==
    /\ Len(image_history) = 2
    /\ current_history_index = 0
    /\ \E r \in MoveResults :
          /\ Img(r, r.processed_image) # Img(Cur, processed_image)
          /\ Img(Cur, processed_image) = Img(Cur, image_history[1])

-----------------------------------------------------------------------------
\* C6: reset (reset_image and clear_drawing) makes the Processed Image a
\* copy of Original Image, the image as it was loaded, also right after a
\* filter or a stroke segment; and filters, strokes, undo and redo do not
\* modify Original Image.
C6_ResetRestoresOriginal ==
    /\ \A f \in GoodFiles :
          LET r == open_image(Cur, f, FALSE)
          IN /\ Img(r, r.original_image) = Decoded(f)
             /\ Img(r, r.processed_image) = Decoded(f)
    /\ \A r \in AllFilterResults \cup PressResults \cup MoveResults
                \cup ReleaseResults \cup {undo(Cur), redo(Cur)} :
          /\ r.original_image = original_image
          /\ ImgOrNone(r, r.original_image) = ImgOrNone(Cur, original_image)
    /\ original_image # None =>
          \A s \in {Cur} \cup AllFilterResults \cup MoveResults :
             \A r \in {reset_image(s), clear_drawing(s)} :
                /\ Img(r, r.processed_image) = Img(Cur, original_image)
                /\ Img(r, r.original_image) = Img(Cur, original_image)
                /\ r.processed_image # r.original_image

\* the Processed Image has been edited away from the original, a further
\* segment is being drawn, and reset brings the original back
C6_Witness ==
    /\ original_image # None
    /\ processed_image # None
    /\ Img(Cur, processed_image) # Img(Cur, original_image)
    /\ \E s \in MoveResults :
          /\ Img(s, s.processed_image) # Img(Cur, processed_image)
          /\ Img(reset_image(s), reset_image(s).processed_image)
                = Img(Cur, original_image)

-----------------------------------------------------------------------------
\* C7 (as the specification states it): a filter application in which any
\* step raises, the display refresh included, reports an error and leaves
\* Processed Image, history and index unchanged.
C7_FailedFilterLeavesStateUnchanged ==
    processed_image # None =>
       \A q \in FilterRequests :
          \A failAt \in FilterFailures(Cur, q[1]) \ {0} :
             LET r == apply_filter(Cur, q[1], q[2], q[3], failAt)
             IN /\ r.msg = "critical"
                /\ r.processed_image = processed_image
                /\ Img(r, r.processed_image) = Img(Cur, processed_image)
                /\ HistoryKept(Cur, r)

-----------------------------------------------------------------------------
\* C8 (as the specification states it): a load (file dialog or drop) whose
\* decode fails reports an error and leaves Original Image, Processed
\* Image, history and index unchanged; a cancelled selection changes
\* nothing.
C8_FailedLoadLeavesStateUnchanged ==
    /\ open_image(Cur, "", FALSE) = Cur
    /\ dropEvent(Cur, <<>>, FALSE) = Cur
    /\ \A f \in BadFiles, d \in BOOLEAN :
          \A r \in {open_image(Cur, f, d), dropEvent(Cur, <<f>>, d)} :
             /\ r.msg = "critical"
             /\ r.original_image = original_image
             /\ ImgOrNone(r, r.original_image) = ImgOrNone(Cur, original_image)
             /\ r.processed_image = processed_image
             /\ ImgOrNone(r, r.processed_image) = ImgOrNone(Cur, processed_image)
             /\ HistoryKept(Cur, r)

-----------------------------------------------------------------------------
\* C9: a successful filter application computes the new Processed Image
\* from the current Processed Image (not from Original Image) and is
\* followed by exactly one record, so the index grows by one; a second
\* application compounds on the first and leaves a second entry.  With no
\* image loaded a filter request only shows a warning.
C9_FilterCompoundsAndRecords ==
    \A q \in FilterRequests :
       IF processed_image = None
       THEN FilterResults(q[1], q[2], q[3]) = {Say(Cur, "warning")}
       ELSE 0 \in FilterFailures(Cur, q[1]) =>
            LET img == Img(Cur, processed_image)
                r == apply_filter(Cur, q[1], q[2], q[3], 0)
            IN /\ r.msg = "none"
               /\ Img(r, r.processed_image) = Transform(q[1], img, q[2], q[3])
               /\ Recorded(Cur, r)
               /\ \A p \in FilterRequests :
                     0 \in FilterFailures(r, p[1]) =>
                        LET r2 == apply_filter(r, p[1], p[2], p[3], 0)
                        IN /\ Img(r2, r2.processed_image)
                                 = Transform(p[1],
                                      Transform(q[1], img, q[2], q[3]),
                                      p[2], p[3])
                           /\ Recorded(r, r2)
                           /\ Len(r2.image_history) = current_history_index + 3

\* a filter succeeds on a Processed Image that differs from the original
C9_Witness ==
    /\ original_image # None
    /\ processed_image # None
    /\ Img(Cur, processed_image) # Img(Cur, original_image)
    /\ current_history_index >= 0
    /\ \E r \in FilterResults("Sharpen", 0, 0) :
          /\ r.msg = "none"
          /\ r.current_history_index = current_history_index + 1
          /\ Img(r, r.processed_image) # Img(Cur, processed_image)

-----------------------------------------------------------------------------
\* C10: a stroke on a loaded image adds exactly one history entry however
\* many segments it draws: pointer-down and pointer-move leave the history
\* and the index as they are, and the pointer-up that ends the stroke
\* records exactly one snapshot, of the Processed Image as drawn.
C10_StrokeRecordsOnce ==
    /\ \A r \in PressResults \cup MoveResults : HistoryKept(Cur, r)
    /\ (is_drawing /\ processed_image # None) =>
          /\ ReleaseResults # {}
          /\ \A r \in ReleaseResults :
                /\ Recorded(Cur, r)
                /\ Img(r, r.processed_image) = Img(Cur, processed_image)
                /\ ~r.is_drawing

\* in the middle of a stroke, with entries in the history, a move draws a
\* segment
C10_Witness ==
    /\ is_drawing
    /\ mouse_down
    /\ last_point # NoPoint
    /\ Len(image_history) >= 1
    /\ \E r \in MoveResults :
          Img(r, r.processed_image) # Img(Cur, processed_image)

-----------------------------------------------------------------------------
\* C11: pointer handling is a two-state machine {Idle, Drawing} (is_drawing
\* false / true).  Pointer-down takes Idle to Drawing exactly when an image
\* is loaded and otherwise changes nothing; pointer-up always ends in Idle;
\* a pointer-move changes the Processed Image only in Drawing, and in Idle
\* it changes nothing at all.
C11_PointerStateMachine ==
    /\ \A pos \in Points :
          LET r == mouse_press_event(Cur, pos)
          IN /\ ~is_drawing => (r.is_drawing <=> processed_image # None)
             /\ processed_image = None => r = Cur
    /\ ~mouse_release_event(Cur).is_drawing
    /\ \A current_point \in Points :
          LET r == mouse_move_event(Cur, current_point)
          IN /\ r.is_drawing = is_drawing
             /\ ~is_drawing => r = Cur
             /\ ImgOrNone(r, r.processed_image) # ImgOrNone(Cur, processed_image)
                   => is_drawing

\* a move is delivered in Idle with an image present: the pointer-down came
\* before there was an image, a capture frame after it
C11_Witness ==
    /\ mouse_down
    /\ ~is_drawing
    /\ processed_image # None
    /\ pixmap
    /\ MoveResults = {Cur}

-----------------------------------------------------------------------------
(* The mapping the specification gives: the image is shown scaled by the   *)
(* single factor s = min(W / w, H / h) and centred.  s is ScaleNum /       *)
(* ScaleDen; the image coordinate of viewport coordinate x is              *)
(* (x - (W - s * w) / 2) / s = ExactXNum / ExactDen, and the same for y.   *)

ScaleNum(m) == IF m.W * m.h <= m.H * m.w THEN m.W ELSE m.H
ScaleDen(m) == IF m.W * m.h <= m.H * m.w THEN m.w ELSE m.h
ExactDen(m) == 2 * ScaleNum(m)
ExactXNum(m, x) == 2 * ScaleDen(m) * x - m.W * ScaleDen(m) + ScaleNum(m) * m.w
ExactYNum(m, y) == 2 * ScaleDen(m) * y - m.H * ScaleDen(m) + ScaleNum(m) * m.h

\* the viewport point lies on the displayed image
OnImage(m, pt) ==
    /\ 0 <= ExactXNum(m, pt[1]) /\ ExactXNum(m, pt[1]) < m.w * ExactDen(m)
    /\ 0 <= ExactYNum(m, pt[2]) /\ ExactYNum(m, pt[2]) < m.h * ExactDen(m)

\* the integer c is the rational num / den rounded down or up
Rounds(c, num, den) == c * den - num < den /\ num - c * den < den

\* C12 (as the specification states it): for an image of w x h pixels in a
\* viewport of W x H pixels, the segment drawn from viewport point A to B
\* has the image-space endpoints obtained by subtracting the centring
\* offset and dividing by the aspect-preserving scale, for all A and B on
\* the displayed image (whichever way the quotient is rounded).
C12_SegmentEndpointsFollowScaleAndOffset ==
    (mapped.seg # <<>> /\ OnImage(mapped, mapped.from)
        /\ OnImage(mapped, mapped.to)) =>
       /\ Rounds(mapped.seg[1], ExactXNum(mapped, mapped.from[1]), ExactDen(mapped))
       /\ Rounds(mapped.seg[2], ExactYNum(mapped, mapped.from[2]), ExactDen(mapped))
       /\ Rounds(mapped.seg[3], ExactXNum(mapped, mapped.to[1]), ExactDen(mapped))
       /\ Rounds(mapped.seg[4], ExactYNum(mapped, mapped.to[2]), ExactDen(mapped))

-----------------------------------------------------------------------------
\* C13: a capture tick (update_live_preview) never records history.  On a
\* successful frame read it replaces only the Processed Image (and its
\* display); on a failed read, or with the loop inactive, it changes
\* nothing; the history, the index and Original Image are in every case
\* what they were.
C13_TickRecordsNothing ==
    \A ret \in BOOLEAN, frame \in Frames :
       LET r == update_live_preview(Cur, ret, frame)
       IN /\ HistoryKept(Cur, r)
          /\ r.original_image = original_image
          /\ ImgOrNone(r, r.original_image) = ImgOrNone(Cur, original_image)
          /\ (~ret \/ ~is_live_preview) => r = Cur
          /\ (ret /\ is_live_preview) =>
                /\ Img(r, r.processed_image) = Decoded(frame)
                /\ [r EXCEPT !.processed_image = processed_image,
                             !.heap = heap,
                             !.pixmap = pixmap] = Cur

\* a frame arrives while the loop is active and the history has entries
C13_Witness ==
    /\ is_live_preview
    /\ timer = "running"
    /\ Len(image_history) >= 1
    /\ \E r \in TickResults :
          /\ r.processed_image # processed_image
          /\ Img(r, r.processed_image) # Img(Cur, processed_image)

-----------------------------------------------------------------------------
\* C14: after stop_live_preview the loop is inactive: is_live_preview is
\* false, the timer is not running and the device self.cap holds is not
\* open.  While the loop is inactive it stays so until a start that opens
\* the device, and a capture tick, were one delivered, changes nothing (so
\* it does not change the Processed Image).
C14_StopMakesLoopInactive ==
    /\ LET r == stop_live_preview(Cur)
       IN /\ ~r.is_live_preview
          /\ r.timer # "running"
          /\ r.cap # "opened"
          /\ \A ret \in BOOLEAN, frame \in Frames :
                update_live_preview(r, ret, frame) = r
    /\ ~is_live_preview =>
          /\ timer # "running"
          /\ cap # "opened"
          /\ \A ret \in BOOLEAN, frame \in Frames :
                update_live_preview(Cur, ret, frame) = Cur
          /\ \A r \in AllResults :
                r.is_live_preview => r = start_live_preview(Cur, TRUE)

\* the loop was running with a frame shown and has been stopped
C14_Witness ==
    /\ ~is_live_preview
    /\ timer = "stopped"
    /\ cap = "released"
    /\ processed_image # None
    /\ original_image = None

-----------------------------------------------------------------------------
\* C15: when the camera device fails to open in start_live_preview, an
\* error is reported and the loop is left inactive: is_live_preview is
\* false, no timer is running, and the Processed Image, Original Image, the
\* history and the index are what they were, whether or not a live session
\* was running before.
C15_FailedStartLeavesLoopInactive ==
    LET r == start_live_preview(Cur, FALSE)
    IN /\ r.msg = "critical"
       /\ ~r.is_live_preview
       /\ r.timer # "running"
       /\ r.cap # "opened"
       /\ r.original_image = original_image
       /\ r.processed_image = processed_image
       /\ r.heap = heap
       /\ HistoryKept(Cur, r)

\* a live session is running, with a frame shown, when the start fails
C15_Witness ==
    /\ is_live_preview
    /\ timer = "running"
    /\ cap = "opened"
    /\ processed_image # None
    /\ ~start_live_preview(Cur, FALSE).is_live_preview

-----------------------------------------------------------------------------
\* the capture handles that are open
OpenHandles ==
    {0 : x \in {cap} \cap {"opened"}}
    \cup {i \in 1..Len(handles) : handles[i] = "opened"}

\* C16 (as the specification states it): the camera handle is a scoped
\* resource.  After any sequence of start_live_preview and
\* stop_live_preview calls, two starts with no stop between them included,
\* at most one handle is open, and none is open while the loop is inactive
\* (every handle acquired has been released once a stop has completed).
C16_AtMostOneHandleOpen ==
    /\ Cardinality(OpenHandles) <= 1
    /\ ~is_live_preview => OpenHandles = {}

-----------------------------------------------------------------------------
\* the kernel size the specification gives for slider value V
ExpectedKernel(V) == IF V < 1 THEN 1 ELSE IF V % 2 = 1 THEN V ELSE V + 1

\* C17: for every blur slider value V in 1..15, Gaussian blur is executed
\* with a kernel size that is odd and at least 1: V when V is odd, V + 1
\* when V is even (5 gives 5, 4 gives 5); a value below 1 is raised to 1.
\* The image a blur leaves is the image before it blurred with that kernel
\* (the image itself for the 1 x 1 kernel).
C17_BlurKernelOddAtLeastOne ==
    LET n == Len(image_history)
        k == ExpectedKernel(blur_slider)
    IN /\ KernelSize(blur_slider) = k
       /\ k % 2 = 1 /\ k >= 1
       /\ (blur_slider >= BlurMin /\ blur_slider % 2 = 0) => k = blur_slider + 1
       /\ (blur_slider >= BlurMin /\ blur_slider % 2 = 1) => k = blur_slider
       /\ n >= 2 =>
             Img(Cur, processed_image)
                = IF k = 1 THEN Img(Cur, image_history[n - 1])
                  ELSE With(Img(Cur, image_history[n - 1]),
                            Op("Gaussian Blur", k, 0, 0, 0))

\* the slider at 4 and the blur executed with kernel 5
C17_Witness ==
    /\ blur_slider = 4
    /\ Len(image_history) = 2
    /\ Img(Cur, processed_image)
          = With(Img(Cur, image_history[1]), Op("Gaussian Blur", 5, 0, 0, 0))

-----------------------------------------------------------------------------
\* C18: the hue update h -> (h + 30) mod 180 on 8-bit hue values has
\* period 6: for every hue value h in 0..179, six applications return h
\* (and fewer do not), no intermediate sum exceeds the 8-bit range, and
\* every intermediate value stays in 0..179.
C18_HueShiftPeriodSix ==
    /\ hue.h \in 0..179
    /\ hue.sum <= 255
    /\ hue.h = (hue.h0 + 30 * hue.n) % 180
    /\ hue.n = 6 => hue.h = hue.h0
    /\ hue.n \in 1..5 => hue.h # hue.h0

\* a hue value that wraps around 180 on the way, back after six shifts
C18_Witness ==
    /\ hue.h0 = 170
    /\ hue.n = 6
    /\ hue.h = 170

-----------------------------------------------------------------------------
\* C19 (as the specification states it): pointer-up commits a history
\* entry only on the transition from Drawing to Idle; a pointer-up received
\* while no stroke is active leaves the history and the index unchanged.
C19_ReleaseOutsideStrokeRecordsNothing ==
    ~is_drawing => \A r \in ReleaseResults : HistoryKept(Cur, r)

-----------------------------------------------------------------------------
\* C20 (as the specification states it): in every interleaving of pointer
\* events with capture ticks, the snapshot recorded at the pointer-up that
\* ends a stroke contains every segment drawn since the matching
\* pointer-down: the drawing operations applied last to the recorded image
\* are exactly those segments, in order.
C20_SnapshotHoldsWholeStroke ==
    stroke.done =>
       LET ops == Img(Cur, image_history[current_history_index + 1]).ops
           n == Len(stroke.segs)
       IN /\ Len(ops) >= n
          /\ SubSeq(ops, Len(ops) - n + 1, Len(ops)) = stroke.segs

-----------------------------------------------------------------------------
\* a whole stroke from pointer-down at p1 with one move to p2
StrokeResult(s, p1, p2) ==
    mouse_release_event(mouse_move_event(mouse_press_event(s, p1), p2))

\* C21 (as the specification states it): one undo issued immediately after
\* a successful edit (a filter application, a reset, a completed stroke)
\* restores the Processed Image to exactly the image that was the
\* Processed Image immediately before the edit began, in every reachable
\* state, also when that image came from a live capture frame.
C21_UndoRestoresImageBeforeEdit ==
    (processed_image # None /\ ~is_drawing) =>
       LET before == Img(Cur, processed_image)
           Restores(r) == Img(undo(r), undo(r).processed_image) = before
       IN /\ \A q \in FilterRequests :
                0 \in FilterFailures(Cur, q[1]) =>
                   Restores(apply_filter(Cur, q[1], q[2], q[3], 0))
          /\ original_image # None => Restores(reset_image(Cur))
          /\ \A p1 \in Points, p2 \in Points :
                Restores(StrokeResult(Cur, p1, p2))

=============================================================================
